---- MODULE Spec2Model ----
(***************************************************************************)
(* Model of scripts/consolidate-venues.py: consolidate_venues(venues_dir)  *)
(* reads the .json files of a directory in sorted filename order, keeps    *)
(* the first record of every uid, counts the kept records per city,        *)
(* prints a summary and writes consolidated-all-venues.json.               *)
(*                                                                         *)
(* Python strings are sequences of one-character strings, so that the      *)
(* f-string of line 21, str.endswith of line 14 and the string comparison  *)
(* behind sorted() of line 13 are computed, not assumed.                   *)
(***************************************************************************)
EXTENDS Integers, Sequences, FiniteSets, TLC

\* ---------------------------------------------------------------- bounds
\* The array elements of a.json and b.json together.
MaxRecords == 3
\* Consecutive runs of the script on the same directory.
MaxRuns == 2

\* ------------------------------------------------------------ Python str
\* Code points of the characters that occur in the file names.
Ascii ==
    ("-" :> 45) @@ ("." :> 46) @@ ("a" :> 97) @@ ("b" :> 98) @@ ("c" :> 99) @@
    ("d" :> 100) @@ ("e" :> 101) @@ ("i" :> 105) @@ ("j" :> 106) @@
    ("l" :> 108) @@ ("n" :> 110) @@ ("o" :> 111) @@ ("s" :> 115) @@
    ("t" :> 116) @@ ("u" :> 117) @@ ("v" :> 118) @@ ("x" :> 120)

\* s < t for Python str: the first differing code point decides, a proper
\* prefix is smaller.
RECURSIVE StrLess(_, _)
StrLess(s, t) ==
    IF t = <<>> THEN FALSE
    ELSE IF s = <<>> THEN TRUE
    ELSE IF Head(s) = Head(t) THEN StrLess(Tail(s), Tail(t))
    ELSE Ascii[Head(s)] < Ascii[Head(t)]

\* sorted(names): ascending by StrLess (the names of a directory are distinct).
RECURSIVE sorted(_)
sorted(names) ==
    IF names = {} THEN <<>>
    ELSE LET m == CHOOSE x \in names : \A y \in names \ {x} : StrLess(x, y)
         IN  <<m>> \o sorted(names \ {m})

\* s.endswith(suffix)
endswith(s, suffix) ==
    /\ Len(s) >= Len(suffix)
    /\ SubSeq(s, Len(s) - Len(suffix) + 1, Len(s)) = suffix

DotJson == <<".", "j", "s", "o", "n">>
ReservedName ==
    <<"c", "o", "n", "s", "o", "l", "i", "d", "a", "t", "e", "d", "-",
      "a", "l", "l", "-", "v", "e", "n", "u", "e", "s">> \o DotJson
AJson == <<"a">> \o DotJson
BJson == <<"b">> \o DotJson
NotesTxt == <<"n", "o", "t", "e", "s", ".", "t", "x", "t">>
FileNames == {AJson, BJson, ReservedName, NotesTxt}

\* ----------------------------------------------------------- JSON values
\* A field value is a JSON string (t = "str", s its characters) or a JSON
\* list holding one string (t = "list", s the characters of that string).
StrVal(s) == [t |-> "str", s |-> s]
ListVal(s) == [t |-> "list", s |-> s]
EmptyStr == StrVal(<<>>)
Unknown == StrVal(<<"u", "n", "k", "n", "o", "w", "n">>)

\* format(value) inside an f-string: a str is itself, a list is its repr.
Str(val) ==
    IF val.t = "str" THEN val.s
    ELSE <<"[", "'">> \o val.s \o <<"'", "]">>

\* hash(value) succeeds for a str and raises TypeError for a list.
Hashable(val) == val.t = "str"

\* An array element: a JSON object (obj, with its fields) or a JSON string.
Obj(fields) == [obj |-> TRUE, fields |-> fields]
NoFields == [k \in {} |-> EmptyStr]
NotAnObject == [obj |-> FALSE, fields |-> NoFields]

\* dict.get(key, default)
Get(v, key, default) ==
    IF key \in DOMAIN v.fields THEN v.fields[key] ELSE default

\* ------------------------------------------------- lines 21-25, per record
\* A slip of line 21: the default of line 25 used for the city of the uid.
uid_CityDefaultUnknown(v) ==
    Str(Get(v, "name", EmptyStr)) \o <<"_">> \o Str(Get(v, "city_id", Unknown))

\* uid = f"{v.get('name', '')}_{v.get('city_id', '')}"
uid(v) ==
    Str(Get(v, "name", EmptyStr)) \o <<"_">> \o Str(Get(v, "city_id", EmptyStr))

\* uid not in seen_ids
IsNew(seen, u) == u \notin seen

\* The key of city_counts[v.get('city_id', 'unknown')]
CityKey(v) == Get(v, "city_id", Unknown)

\* city_counts[key] += 1 on a defaultdict(int): city_counts is the sequence
\* of its items in insertion order, which is the order dict.items() yields.
HasKey(cc, key) == \E i \in 1..Len(cc) : cc[i].city = key
Incr(cc, key) ==
    IF HasKey(cc, key)
    THEN [i \in 1..Len(cc) |->
            IF cc[i].city = key THEN [cc[i] EXCEPT !.count = @ + 1] ELSE cc[i]]
    ELSE Append(cc, [city |-> key, count |-> 1])

\* ------------------------------------------------------ lines 32-33, report
\* A slip of line 32: the sign of the key left out.
SortKey_Ascending(item) == item.count

\* key=lambda x: -x[1]
SortKey(item) == -item.count

\* sorted(city_counts.items(), key=...): ascending by key and stable, so the
\* earliest item among those of the smallest key comes first.
RECURSIVE sorted_items(_)
sorted_items(items) ==
    IF items = <<>> THEN <<>>
    ELSE LET n == Len(items)
             i == CHOOSE i \in 1..n :
                    /\ \A j \in 1..n : SortKey(items[i]) <= SortKey(items[j])
                    /\ \A j \in 1..(i - 1) : SortKey(items[j]) > SortKey(items[i])
         IN  <<items[i]>> \o sorted_items(SubSeq(items, 1, i - 1) \o SubSeq(items, i + 1, n))

\* The lines written to standard output (the blank lines and the "By city:"
\* heading carry no data and are left out).
ErrorLine(f) == [kind |-> "error", text |-> f, n |-> 0]
TotalLine(n) == [kind |-> "total", text |-> <<>>, n |-> n]
CityLine(item) == [kind |-> "city", text |-> Str(item.city), n |-> item.count]
SavedLine == [kind |-> "saved", text |-> ReservedName, n |-> 0]

CityLines(cc) ==
    LET s == sorted_items(cc) IN [i \in 1..Len(s) |-> CityLine(s[i])]

\* ----------------------------------------------------------- file system
\* What a directory entry holds: nothing (no such entry), text json.load
\* rejects ("invalid"; an unreadable file and a top-level number fail the
\* same way, inside the try before any record), or a JSON array.
Absent == [kind |-> "absent", items |-> <<>>]
Invalid == [kind |-> "invalid", items |-> <<>>]
Array(items) == [kind |-> "array", items |-> items]

\* The two fields of a venue that the script reads.
Name(s) == "name" :> StrVal(s)
City(s) == "city_id" :> StrVal(s)

Bare == Obj(NoFields)
EmptyCity == Obj(City(<<>>))
NamedUnderscore == Obj(Name(<<"_">>))
CityUnderscore == Obj(City(<<"_">>))
BothUnderscore == Obj(Name(<<"_">>) @@ City(<<"_">>))
ListCity == Obj("city_id" :> ListVal(<<"x">>))

\* The array elements the input files are built from.
Elems ==
    {Bare, EmptyCity, NamedUnderscore, CityUnderscore, BothUnderscore,
     ListCity, NotAnObject}

\* Entries that are in the directory beside the venue files: a text file
\* and the output of an earlier run.
NotesContent == Array(<<BothUnderscore>>)
StaleOutput == Array(<<NamedUnderscore>>)

VARIABLES
    dir,          \* "ok", "missing" or "denied" (exists, cannot be listed)
    fs,           \* file name -> content of the directory entry
    pc,           \* position of the run in consolidate_venues
    todo,         \* entries the for loop of line 13 has not reached yet
    f,            \* the loop variable of line 13
    venues,       \* json.load(fp) of the file being processed
    idx,          \* position of the loop of line 19 in venues
    all_venues,
    seen_ids,
    city_counts,
    stdout,       \* lines printed by the current run
    opened,       \* names passed to open() for reading by the current run
    run,          \* number of the current run
    prev          \* what the previous run left: output file, printed lines

vars ==
    <<dir, fs, pc, todo, f, venues, idx, all_venues, seen_ids, city_counts,
      stdout, opened, run, prev>>

NoPrev == [output |-> Absent, stdout |-> <<>>]

Directory(a, b, extras) ==
    [n \in FileNames |->
        IF n = AJson THEN a
        ELSE IF n = BJson THEN b
        ELSE IF ~extras THEN Absent
        ELSE IF n = NotesTxt THEN NotesContent
        ELSE StaleOutput]

Init ==
    /\ \E d \in {"ok", "missing", "denied"}, extras \in BOOLEAN :
         /\ dir = d
         /\ \/ /\ d = "ok"
               /\ \E la \in 0..MaxRecords :
                    \E lb \in 0..(MaxRecords - la) :
                      \E ia \in [1..la -> Elems], ib \in [1..lb -> Elems] :
                        \E a \in {Array(ia)} \cup (IF la = 0 THEN {Absent, Invalid} ELSE {}),
                           b \in {Array(ib)} \cup (IF lb = 0 THEN {Absent, Invalid} ELSE {}) :
                          fs = Directory(a, b, extras)
            \/ /\ d = "denied"
               /\ fs = Directory(Absent, Absent, extras)
            \/ /\ d = "missing"
               /\ ~extras
               /\ fs = Directory(Absent, Absent, FALSE)
    /\ pc = "start"
    /\ todo = <<>>
    /\ f = <<>>
    /\ venues = <<>>
    /\ idx = 1
    /\ all_venues = <<>>
    /\ seen_ids = {}
    /\ city_counts = <<>>
    /\ stdout = <<>>
    /\ opened = {}
    /\ run = 1
    /\ prev = NoPrev

\* ------------------------------------------------------------ lines 13-14
\* A slip of line 13: a directory that cannot be listed read as an empty one.
listdir_NeverRaises ==
    [raised |-> FALSE,
     names |-> IF dir = "ok" THEN {n \in FileNames : fs[n].kind # "absent"} ELSE {}]

\* os.listdir(venues_dir): raises when the directory is missing or cannot
\* be listed, else the names of its entries.
listdir ==
    [raised |-> dir # "ok",
     names |-> {n \in FileNames : fs[n].kind # "absent"}]

\* Slips of line 14: one of the two tests left out.
Qualifies_AnyJson(n) == endswith(n, DotJson)
Qualifies_AnyName(n) == n # ReservedName

\* f.endswith('.json') and f != 'consolidated-all-venues.json'
Qualifies(n) == endswith(n, DotJson) /\ n # ReservedName

\* The loop of line 19 goes on with the element at i, or is over.
AfterItem(i) == IF i > Len(venues) THEN "loop" ELSE "items"

\* Line 13: the listing raises out of consolidate_venues, or the for loop
\* gets the sorted entries.
ListDir ==
    /\ pc = "start"
    /\ IF listdir.raised
       THEN pc' = "raised" /\ todo' = todo
       ELSE pc' = "loop" /\ todo' = sorted(listdir.names)
    /\ UNCHANGED <<dir, fs, f, venues, idx, all_venues, seen_ids, city_counts,
                   stdout, opened, run, prev>>

\* Line 14 false: the entry is passed over.
SkipEntry ==
    /\ pc = "loop"
    /\ todo # <<>>
    /\ ~Qualifies(Head(todo))
    /\ f' = Head(todo)
    /\ todo' = Tail(todo)
    /\ UNCHANGED <<dir, fs, pc, venues, idx, all_venues, seen_ids, city_counts,
                   stdout, opened, run, prev>>

\* Lines 17-18 raise: line 27 prints the error and the loop goes on.
LoadFails ==
    /\ pc = "loop"
    /\ todo # <<>>
    /\ Qualifies(Head(todo))
    /\ fs[Head(todo)].kind = "invalid"
    /\ f' = Head(todo)
    /\ todo' = Tail(todo)
    /\ opened' = opened \cup {Head(todo)}
    /\ stdout' = Append(stdout, ErrorLine(Head(todo)))
    /\ UNCHANGED <<dir, fs, pc, venues, idx, all_venues, seen_ids, city_counts,
                   run, prev>>

\* Lines 17-18 succeed: the loop of line 19 starts on the loaded array.
LoadFile ==
    /\ pc = "loop"
    /\ todo # <<>>
    /\ Qualifies(Head(todo))
    /\ fs[Head(todo)].kind = "array"
    /\ f' = Head(todo)
    /\ todo' = Tail(todo)
    /\ opened' = opened \cup {Head(todo)}
    /\ venues' = fs[Head(todo)].items
    /\ idx' = 1
    /\ pc' = IF fs[Head(todo)].items = <<>> THEN "loop" ELSE "items"
    /\ UNCHANGED <<dir, fs, all_venues, seen_ids, city_counts, stdout, run, prev>>

\* Line 21 raises AttributeError on an element that is no object: the
\* except of line 26 ends the file.
ItemNotObject ==
    /\ pc = "items"
    /\ ~venues[idx].obj
    /\ stdout' = Append(stdout, ErrorLine(f))
    /\ pc' = "loop"
    /\ UNCHANGED <<dir, fs, todo, f, venues, idx, all_venues, seen_ids,
                   city_counts, opened, run, prev>>

\* Line 22 false: a later record of a seen uid is dropped.
ItemSeen ==
    /\ pc = "items"
    /\ venues[idx].obj
    /\ ~IsNew(seen_ids, uid(venues[idx]))
    /\ idx' = idx + 1
    /\ pc' = AfterItem(idx + 1)
    /\ UNCHANGED <<dir, fs, todo, f, venues, all_venues, seen_ids, city_counts,
                   stdout, opened, run, prev>>

\* Lines 23-25: the record of a new uid is kept and counted.
ItemKept ==
    /\ pc = "items"
    /\ venues[idx].obj
    /\ IsNew(seen_ids, uid(venues[idx]))
    /\ Hashable(CityKey(venues[idx]))
    /\ seen_ids' = seen_ids \cup {uid(venues[idx])}
    /\ all_venues' = Append(all_venues, venues[idx])
    /\ city_counts' = Incr(city_counts, CityKey(venues[idx]))
    /\ idx' = idx + 1
    /\ pc' = AfterItem(idx + 1)
    /\ UNCHANGED <<dir, fs, todo, f, venues, stdout, opened, run, prev>>

\* Lines 23-24 run, then line 25 raises TypeError on a city_id that cannot
\* be a dict key: the except of line 26 ends the file.
ItemUnhashable ==
    /\ pc = "items"
    /\ venues[idx].obj
    /\ IsNew(seen_ids, uid(venues[idx]))
    /\ ~Hashable(CityKey(venues[idx]))
    /\ seen_ids' = seen_ids \cup {uid(venues[idx])}
    /\ all_venues' = Append(all_venues, venues[idx])
    /\ stdout' = Append(stdout, ErrorLine(f))
    /\ pc' = "loop"
    /\ UNCHANGED <<dir, fs, todo, f, venues, idx, city_counts, opened, run, prev>>

\* Lines 29-33: the total and one line per city.
Report ==
    /\ pc = "loop"
    /\ todo = <<>>
    /\ stdout' = stdout \o <<TotalLine(Len(all_venues))>> \o CityLines(city_counts)
    /\ pc' = "save"
    /\ UNCHANGED <<dir, fs, todo, f, venues, idx, all_venues, seen_ids,
                   city_counts, opened, run, prev>>

\* Lines 36-42: json.dump writes the catalog over the output file.
Save ==
    /\ pc = "save"
    /\ fs' = [fs EXCEPT ![ReservedName] = Array(all_venues)]
    /\ stdout' = Append(stdout, SavedLine)
    /\ pc' = "done"
    /\ UNCHANGED <<dir, todo, f, venues, idx, all_venues, seen_ids, city_counts,
                   opened, run, prev>>

\* Lines 44-46 again: the script is started once more on the directory the
\* last run left.
Rerun ==
    /\ pc = "done"
    /\ run < MaxRuns
    /\ run' = run + 1
    /\ prev' = [output |-> fs[ReservedName], stdout |-> stdout]
    /\ pc' = "start"
    /\ todo' = <<>>
    /\ f' = <<>>
    /\ venues' = <<>>
    /\ idx' = 1
    /\ all_venues' = <<>>
    /\ seen_ids' = {}
    /\ city_counts' = <<>>
    /\ stdout' = <<>>
    /\ opened' = {}
    /\ UNCHANGED <<dir, fs>>

Next ==
    \/ ListDir
    \/ SkipEntry
    \/ LoadFails
    \/ LoadFile
    \/ ItemNotObject
    \/ ItemSeen
    \/ ItemKept
    \/ ItemUnhashable
    \/ Report
    \/ Save
    \/ Rerun

Spec == Init /\ [][Next]_vars

TypeOK ==
    /\ dir \in {"ok", "missing", "denied"}
    /\ pc \in {"start", "raised", "loop", "items", "save", "done"}
    /\ pc = "items" => idx \in 1..Len(venues)
    /\ run \in 1..MaxRuns

\* ------------------------------------------- lines 8-27 as a pure function
\* The state the pass builds: Fresh is lines 9-11.
Fresh == [all_venues |-> <<>>, seen_ids |-> {}, city_counts |-> <<>>]

\* Lines 19-27 on the elements of one loaded array, from state st.
RECURSIVE consolidate_items(_, _)
consolidate_items(st, items) ==
    IF items = <<>> THEN st
    ELSE LET v == Head(items) IN
         IF ~v.obj THEN st
         ELSE IF ~IsNew(st.seen_ids, uid(v)) THEN consolidate_items(st, Tail(items))
         ELSE LET kept == [st EXCEPT !.seen_ids = @ \cup {uid(v)},
                                     !.all_venues = Append(@, v)]
              IN  IF ~Hashable(CityKey(v)) THEN kept
                  ELSE consolidate_items(
                         [kept EXCEPT !.city_counts = Incr(@, CityKey(v))],
                         Tail(items))

\* Lines 13-27 on the contents of the qualifying files, in loop order.
RECURSIVE consolidate(_, _)
consolidate(st, contents) ==
    IF contents = <<>> THEN st
    ELSE consolidate(
           IF Head(contents).kind = "array"
           THEN consolidate_items(st, Head(contents).items)
           ELSE st,
           Tail(contents))

\* ------------------------------------------------------------ vocabulary
Range(s) == {s[i] : i \in DOMAIN s}

\* The entries of the directory that are venue files: their names end in
\* .json and are not the output file's.
VenueFiles == {AJson, BJson}

\* The (name, city_id) pair of a record, a missing field read as ''.
Pair(v) == <<Get(v, "name", EmptyStr), Get(v, "city_id", EmptyStr)>>

\* A successfully parsed file: a JSON array whose elements are all objects.
WellFormed(c) == c.kind = "array" /\ \A i \in 1..Len(c.items) : c.items[i].obj

ContentsOf(names) == [i \in 1..Len(names) |-> fs[names[i]]]

RECURSIVE Concat(_)
Concat(contents) ==
    IF contents = <<>> THEN <<>>
    ELSE Head(contents).items \o Concat(Tail(contents))

\* The venue files that parse, in sorted filename order, and their records.
ParsedFiles == sorted({n \in VenueFiles : WellFormed(fs[n])})
ParsedItems == Concat(ContentsOf(ParsedFiles))

\* The first occurrence of every uid of s, in the order of s.
RECURSIVE FirstOccurrences(_)
FirstOccurrences(s) ==
    IF s = <<>> THEN <<>>
    ELSE LET n == Len(s)
             front == SubSeq(s, 1, n - 1)
         IN  IF \E i \in 1..(n - 1) : uid(s[i]) = uid(s[n])
             THEN FirstOccurrences(front)
             ELSE Append(FirstOccurrences(front), s[n])

\* The city the data model assigns a record to: "unknown" when city_id is
\* absent or empty.
AssignedCity(v) ==
    IF Get(v, "city_id", EmptyStr) = EmptyStr THEN Unknown ELSE v.fields["city_id"]

CountOf(cc, key) ==
    IF HasKey(cc, key) THEN cc[CHOOSE i \in 1..Len(cc) : cc[i].city = key].count ELSE 0

KeptUnder(city(_), key) ==
    Cardinality({i \in 1..Len(all_venues) : city(all_venues[i]) = key})

RECURSIVE SumCounts(_)
SumCounts(cc) == IF cc = <<>> THEN 0 ELSE Head(cc).count + SumCounts(Tail(cc))

IsCityLine(line) == line.kind = "city"
Finished == pc = "done"

\* Every city_id of the venue files is a string, as the data model has it.
CitiesAreStrings ==
    \A n \in VenueFiles : \A i \in 1..Len(fs[n].items) :
        Hashable(CityKey(fs[n].items[i]))

NoFileFailed == \A i \in 1..Len(stdout) : stdout[i].kind # "error"

\* A run that finishes leaves what the pure function computes from the
\* venue files of the directory.
ModelAgrees ==
    Finished =>
        LET st == consolidate(Fresh, ContentsOf(sorted(
                    {n \in VenueFiles : fs[n].kind # "absent"})))
        IN  /\ all_venues = st.all_venues
            /\ seen_ids = st.seen_ids
            /\ city_counts = st.city_counts
            /\ fs[ReservedName] = Array(all_venues)

\* ----------------------------------------------------------------- claims

\* C1: when the run has finished, the number of records of the output (the
\* reported total) is the number of distinct (name, city_id) pairs of the
\* successfully parsed files. Stated for the runs in which no file failed,
\* so that every venue file counts as parsed.
C1_TotalIsDistinctPairs ==
    (Finished /\ NoFileFailed) =>
        /\ Len(all_venues) = Cardinality({Pair(v) : v \in Range(ParsedItems)})
        /\ Len(fs[ReservedName].items) = Len(all_venues)

\* C2: a failing file leaves no record and no count: the finished run's
\* catalog and city counts are those the pass computes from the successfully
\* parsed files alone. Stated for the directories whose city ids are strings.
C2_FailedFileLeavesNothing ==
    (Finished /\ CitiesAreStrings) =>
        LET st == consolidate(Fresh, ContentsOf(ParsedFiles))
        IN  /\ all_venues = st.all_venues
            /\ city_counts = st.city_counts

\* C3: in every state of the pass, and in the output file a run has written,
\* no two records of the catalog have the same (name, city_id) pair.
C3_PairsUnique ==
    /\ \A i, j \in 1..Len(all_venues) :
         i # j => Pair(all_venues[i]) # Pair(all_venues[j])
    /\ Finished =>
         \A i, j \in 1..Len(fs[ReservedName].items) :
           i # j => Pair(fs[ReservedName].items[i]) # Pair(fs[ReservedName].items[j])

\* C3 witness: an object with the pair of a kept record, but another record
\* than the kept one, has been passed over.
C3_Witness ==
    /\ idx > 1
    /\ idx - 1 <= Len(venues)
    /\ venues[idx - 1].obj
    /\ venues[idx - 1] \notin Range(all_venues)
    /\ \E i \in 1..Len(all_venues) : Pair(all_venues[i]) = Pair(venues[idx - 1])

\* C4: the finished run's catalog is the sequence of first occurrences of
\* every Identity Key among the records of the parsed files, ordered by
\* sorted filename and then by position in the array. Stated for the
\* directories whose city ids are strings.
C4_FirstSeenOrder ==
    (Finished /\ CitiesAreStrings) => all_venues = FirstOccurrences(ParsedItems)

\* C5: every kept record is counted under the city the data model assigns
\* it ("unknown" when city_id is absent or empty) and under no other key.
\* Stated for the directories whose city ids are strings.
C5_EmptyCityIsUnknown ==
    CitiesAreStrings =>
    \A key \in {city_counts[i].city : i \in 1..Len(city_counts)}
               \cup {AssignedCity(v) : v \in Range(all_venues)} :
        CountOf(city_counts, key) = KeptUnder(AssignedCity, key)

\* C6: a later run on the same directory never opens the output file for
\* reading, and leaves the same output file content and prints the same
\* total and city counts as the run before it.
C6_Idempotent ==
    /\ ReservedName \notin opened
    /\ (run > 1 /\ Finished) =>
         /\ fs[ReservedName] = prev.output
         /\ stdout = prev.stdout

\* C6 witness: a second run has finished with records and a failed file in
\* the directory.
C6_Witness ==
    /\ run = 2
    /\ Finished
    /\ Len(all_venues) >= 2
    /\ \E i \in 1..Len(stdout) : stdout[i].kind = "error"

\* C7: when the directory is missing or cannot be listed the run ends at the
\* listing with the error raised: nothing is opened, nothing is printed, and
\* the output file is neither created nor overwritten.
C7_DirectoryErrorAborts ==
    dir # "ok" =>
        /\ pc \in {"start", "raised"}
        /\ opened = {}
        /\ stdout = <<>>
        /\ all_venues = <<>>
        /\ fs[ReservedName] = IF fs[NotesTxt].kind = "absent" THEN Absent ELSE StaleOutput

\* C7 witness: the listing of a directory that cannot be listed has raised,
\* with the output of an earlier run in it.
C7_Witness ==
    /\ dir = "denied"
    /\ pc = "raised"
    /\ fs[ReservedName] = StaleOutput

\* C8: the summary has one line for every city of city_counts, with its
\* count; counts do not increase down the lines, and cities of equal count
\* are in the order of their insertion into city_counts.
C8_SummaryOrder ==
    pc \in {"save", "done"} =>
        LET lines == SelectSeq(stdout, IsCityLine)
            Pos(line) == CHOOSE p \in 1..Len(city_counts) :
                            Str(city_counts[p].city) = line.text
        IN  /\ Len(lines) = Len(city_counts)
            /\ \A p \in 1..Len(city_counts) :
                 Cardinality({i \in 1..Len(lines) :
                    lines[i] = CityLine(city_counts[p])}) = 1
            /\ \A i, j \in 1..Len(lines) :
                 i < j =>
                   /\ lines[i].n >= lines[j].n
                   /\ lines[i].n = lines[j].n => Pos(lines[i]) < Pos(lines[j])

\* C8 witness: the city printed first was inserted after the city printed
\* second and has the greater count.
C8_Witness ==
    /\ Finished
    /\ Len(city_counts) >= 2
    /\ city_counts[1].count < city_counts[2].count
    /\ LET lines == SelectSeq(stdout, IsCityLine)
       IN  /\ lines[1] = CityLine(city_counts[2])
           /\ lines[2] = CityLine(city_counts[1])

\* C9: on a directory without venue files the run finishes, writes the
\* empty array and prints a total of 0 and no city (and nothing else).
C9_NoInputFiles ==
    (dir = "ok" /\ \A n \in VenueFiles : fs[n].kind = "absent") =>
        /\ pc # "raised"
        /\ pc \in {"save", "done"} => SubSeq(stdout, 1, 1) = <<TotalLine(0)>>
        /\ Finished =>
             /\ fs[ReservedName] = Array(<<>>)
             /\ stdout = <<TotalLine(0), SavedLine>>

\* C9 witness: such a run has finished on a directory that holds a text
\* file and the output of an earlier run.
C9_Witness ==
    /\ Finished
    /\ dir = "ok"
    /\ \A n \in VenueFiles : fs[n].kind = "absent"
    /\ fs[NotesTxt] = NotesContent
    /\ run = 1

\* C10: after every processed record the city counts add up to the length
\* of the catalog, every city's count is the number of catalog records with
\* that city key, and the seen uids are the uids of the catalog records.
C10_CountsMatchCatalog ==
    /\ SumCounts(city_counts) = Len(all_venues)
    /\ \A i \in 1..Len(city_counts) :
         city_counts[i].count = KeptUnder(CityKey, city_counts[i].city)
    /\ seen_ids = {uid(v) : v \in Range(all_venues)}

====
